---- MODULE Spec2Model ----
(***************************************************************************)
(* Model of the cse101 lab scripts:                                        *)
(*   - the USB serial 'r'-command labs (device code.py + host              *)
(*     read_samples.py) and the resistor prompt of ohms_read.py,           *)
(*   - the AD9833 waveform-generator driver (ad9833_blinka.py),            *)
(*   - the LS7366R counter driver (ls7366r_blinka.py),                     *)
(*   - the sampling loop of biot_savart.py,                                *)
(*   - the one-second measurement of frequency_counter.py and              *)
(*     geiger_counter.py,                                                  *)
(*   - read_samples of count_by_looping/code.py.                           *)
(* The parts share no state; each has its own specification.               *)
(***************************************************************************)
EXTENDS Integers, Sequences, FiniteSets, TLC

(***************************************************************************)
(* Bounds of the model.                                                    *)
(***************************************************************************)
\* Samples per array: stands for the labs' n (1000/2000, 450, 200, 100, 2000).
NScale == 2
\* Times the host script is run against a device that keeps running.
MaxRuns == 2
\* Lines some other program writes to the data port.
MaxStray == 1
\* Pulses the counter chip sees on its A input.
MaxPulses == 2
\* Entries the resistor prompt rejects before the model stops offering bad ones.
MaxTries == 2
\* I2C errors raised by live hardware during one run of biot_savart.py.
MaxFaults == 2
\* Measurements one run of the frequency counter makes.
MaxMeasure == 2

(***************************************************************************)
(* Text: a str is a sequence of one-character strings.                     *)
(***************************************************************************)
Whitespace == {" ", "\t", "\n", "\r"}

UpperChars == <<"A","B","C","D","E","F","G","H","I","J","K","L","M",
                "N","O","P","Q","R","S","T","U","V","W","X","Y","Z">>
LowerChars == <<"a","b","c","d","e","f","g","h","i","j","k","l","m",
                "n","o","p","q","r","s","t","u","v","w","x","y","z">>
DigitChars == <<"0","1","2","3","4","5","6","7","8","9">>

\* str.lower() on one character.
LowerChar(c) ==
  IF \E i \in 1..Len(UpperChars) : UpperChars[i] = c
  THEN LowerChars[CHOOSE i \in 1..Len(UpperChars) : UpperChars[i] = c]
  ELSE c

\* str.lower()
Lower(s) == [i \in 1..Len(s) |-> LowerChar(s[i])]

\* str.strip(): drops leading and trailing whitespace, keeps inner whitespace.
Strip(s) ==
  LET keep == {i \in 1..Len(s) : s[i] \notin Whitespace} IN
  IF keep = {} THEN <<>>
  ELSE LET lo == CHOOSE i \in keep : \A j \in keep : i <= j
           hi == CHOOSE i \in keep : \A j \in keep : j <= i
       IN SubSeq(s, lo, hi)

\* str(x) for a non-negative int x: its decimal digits.
RECURSIVE DecStr(_)
DecStr(x) ==
  IF x < 10 THEN <<DigitChars[x + 1]>>
  ELSE Append(DecStr(x \div 10), DigitChars[(x % 10) + 1])

IsDigit(c) == \E i \in 1..10 : DigitChars[i] = c
DigitVal(c) == (CHOOSE i \in 1..10 : DigitChars[i] = c) - 1

\* A str int() accepts (after the strip the callers do): digits only, non-empty.
IsDecimal(s) == Len(s) > 0 /\ \A i \in 1..Len(s) : IsDigit(s[i])

\* int(s) for a decimal str.
RECURSIVE ParseInt(_)
ParseInt(s) ==
  IF Len(s) = 0 THEN 0
  ELSE 10 * ParseInt(SubSeq(s, 1, Len(s) - 1)) + DigitVal(s[Len(s)])

(***************************************************************************)
(* State.                                                                  *)
(***************************************************************************)
VARIABLES
  \* ---- serial labs ----
  lab,        \* which lab's code.py runs on the device
  dpc,        \* device position: "waiting" | "sampling" | "sending"
  dI,         \* device loop index (sampling: samples taken; sending: lines sent)
  dFirst,     \* the array the device sends first
  dSecond,    \* the array the device sends second
  pinCharge,  \* rc_circuit: pin_charge.value
  tick,       \* time.monotonic_ns(), in sample periods
  toDevice,   \* lines written to the data port, not yet read by the device
  toHost,     \* lines written by the device, not yet read by the host
  reply,      \* history: lines the device wrote since it last accepted 'r'
  hpc,        \* host position: "start" | "readN" | "readFirst" | "readSecond" | "done" | "failed"
  hN,         \* host: n
  hI,         \* host: loop index
  hFirst,     \* host: first array
  hSecond,    \* host: second array
  runs,       \* host script runs started
  strays,     \* stray lines written
  dPairs,     \* history: <<stimulus, response>> of each sampling-loop iteration, in order
  dacRaw,        \* dac.raw_value of the MCP4725 (on the device, or on the host in ohms_read.py)
  csv,        \* the CSV file saved: <<>> if none, else <<[name, rows]>>
  resistor,   \* host: resistor_num (0 while unassigned)
  said,       \* host: what the latest pass of the resistor prompt printed
  tries,      \* entries the resistor prompt has rejected
  \* ---- AD9833 driver ----
  adControl,  \* self._control
  adFreqSel,  \* self._freq_sel
  adPhaseSel, \* self._phase_sel
  adCache,    \* self._freq_cache_0 / _1: <<>> while the attribute does not exist
  adWritten,  \* history: the hz last programmed into FREQ0 / FREQ1, <<>> if none
  adOp,       \* the last call made on the driver and its arguments
  adPrev,     \* history: self._control when that call started
  adLog,      \* the SPI transactions of that call, each the bytes of one CS-low write
  adRaised,   \* that call raised ValueError
  adRet,      \* what that call returned (getters)
  \* ---- LS7366R driver and chip ----
  lsNbytes,   \* self._nbytes
  lsMDR0,     \* chip: MDR0
  lsMDR1,     \* chip: MDR1
  lsCNTR,     \* chip: CNTR, four bytes, most significant first
  lsDTR,      \* chip: DTR, four bytes, most significant first
  lsOp,       \* the last call made on the driver and its arguments
  lsPrev,     \* history: MDR1 and self._nbytes when that call started
  lsLog,      \* the SPI transfers of that call: opcode, bytes written, bytes read
  lsRaised,   \* that call raised (ValueError / OverflowError)
  lsRet,      \* what that call returned, an int as <<high, low 16 bits>>
  lsChain,    \* history: progress through write_dtr, load_cntr_from_dtr, read_counter
  pulses,     \* pulses counted on input A
  \* ---- biot_savart.py ----
  bsPc,       \* position: "outer" | "inner" | "done" | "crashed"
  bsI,        \* i of the loop over current steps
  bsJ,        \* inner-loop iterations completed in this step
  bsDuty,     \* motor_pwm_1.duty_cycle
  bsSleepPin, \* motor_sleep_pin.value
  bsBusLive,  \* i2c_bus0 names a bus that has not been deinit()ed
  bsMagLive,  \* magnetometer is built on a bus that has not been deinit()ed
  bsIters,    \* history: inner-loop iterations completed in all
  bsFaults,   \* history: errors raised by live hardware
  bsLast,     \* history: how the latest inner iteration went
  \* ---- frequency_counter.py / geiger_counter.py ----
  fcPc,       \* position: "t0" | "zero" | "spin" | "read"
  fcElapsed,  \* time.perf_counter_ns() - t0 now, in ns
  fcPeriod,   \* period of the input signal, in ns
  fcPhase,    \* time from the input's latest pulse to t0, in ns
  fcClearAt,  \* history: fcElapsed when CLR_CNTR took effect, -1 before
  fcLatchAt,  \* history: fcElapsed when RD_CNTR latched the count, -1 before
  fcRet,      \* what read_counter(signed=False) returned
  fcDone,     \* measurements completed
  \* ---- count_by_looping/code.py ----
  cbPc,       \* position: "waiting" | "fall" | "rise" | "write"
  cbPin,      \* pin_pulse.value
  cbCounts,   \* counts
  cbElapsed,  \* time.monotonic_ns() - time_start now, in microseconds
  cbLines,    \* history: lines written since the latest 'r'
  cbRuns      \* 'r' commands received

serialVars == <<lab, dpc, dI, dFirst, dSecond, pinCharge, tick, toDevice,
                toHost, reply, hpc, hN, hI, hFirst, hSecond, runs, strays,
                dPairs, dacRaw, csv, resistor, said, tries>>

adVars == <<adControl, adFreqSel, adPhaseSel, adCache, adWritten, adOp, adPrev,
            adLog, adRaised, adRet>>

lsVars == <<lsNbytes, lsMDR0, lsMDR1, lsCNTR, lsDTR, lsOp, lsPrev, lsLog, lsRaised,
            lsRet, lsChain, pulses>>

biotVars == <<bsPc, bsI, bsJ, bsDuty, bsSleepPin, bsBusLive, bsMagLive, bsIters, bsFaults,
              bsLast>>

fcVars == <<fcPc, fcElapsed, fcPeriod, fcPhase, fcClearAt, fcLatchAt, fcRet, fcDone>>

cbVars == <<cbPc, cbPin, cbCounts, cbElapsed, cbLines, cbRuns>>

vars == <<serialVars, adVars, lsVars, biotVars, fcVars, cbVars>>

nonSerialVars == <<adVars, lsVars, biotVars, fcVars, cbVars>>
nonAdVars == <<serialVars, lsVars, biotVars, fcVars, cbVars>>
nonLsVars == <<serialVars, adVars, biotVars, fcVars, cbVars>>
nonBiotVars == <<serialVars, adVars, lsVars, fcVars, cbVars>>
nonFcVars == <<serialVars, adVars, lsVars, biotVars, cbVars>>
nonCbVars == <<serialVars, adVars, lsVars, biotVars, fcVars>>

(***************************************************************************)
(* Serial labs, device side (code.py).                                     *)
(***************************************************************************)
Labs == {"rc_circuit", "bjt_amplification", "diode_ivcurve", "ohms_law", "op_amp"}

\* The readings the model draws for pin_adc.value / adc_chan.voltage / ina219.current.
Readings == {0, 512}

\* Marks an array slot not yet assigned (the code fills the lists with a placeholder).
Unset == -1

\* The count the device announces: n2 = n1 * 2 in rc_circuit, n elsewhere.
SampleCount(l) == IF l = "rc_circuit" THEN NScale * 2 ELSE NScale

\* The stimulus recorded in iteration i (0-based): a clock reading in the timed
\* labs, the DAC code just set in the swept labs.
Stimulus(l, i, t) ==
  CASE l = "rc_circuit"        -> t
    [] l = "op_amp"            -> t
    [] l = "bjt_amplification" -> 572 + i
    [] l = "diode_ivcurve"     -> i * 8
    [] l = "ohms_law"          -> 1125 + i * 30
    [] l = "ohms_read"         -> 1125 + i * 60

\* usb_writeline(x): str(x) + "\n"
LineOf(x) == Append(DecStr(x), "\n")

\* usb_readline(): the line decoded and stripped.
ReadLine(line) == Strip(line)

\* The lines read_samples sends, in order: the count, then both arrays.
\* rc_circuit and op_amp send times then volts; the swept labs send the
\* stimulus array then the response array.
ReplyLinesOneArray(l, first, second) ==
  <<LineOf(SampleCount(l))>> \o [i \in 1..Len(first) |-> LineOf(first[i])]

ReplyLinesAndDone(l, first, second) ==
  <<LineOf(SampleCount(l))>>
    \o [i \in 1..Len(first) |-> LineOf(first[i])]
    \o [i \in 1..Len(second) |-> LineOf(second[i])]
    \o <<LineOf(0)>>

ReplyLines(l, first, second) ==
  <<LineOf(SampleCount(l))>>
    \o [i \in 1..Len(first) |-> LineOf(first[i])]
    \o [i \in 1..Len(second) |-> LineOf(second[i])]

\* The labs whose stimulus is a DAC sweep.
Swept == {"bjt_amplification", "diode_ivcurve", "ohms_law", "ohms_read"}

\* The scripts that ask for the resistor number first.
Prompting == {"ohms_law", "ohms_read"}

\* Where a host script starts: at the resistor prompt, or at usb_writeline("r").
HostEntry(l) == IF l \in Prompting THEN "prompt" ELSE "start"

\* int(s) of a typed line: s is stripped, may carry one sign, then digits.
IntBody(s) ==
  LET t == Strip(s) IN
  IF Len(t) > 0 /\ t[1] \in {"+", "-"} THEN Tail(t) ELSE t
IntAccepts(s) == IsDecimal(IntBody(s))
IntOf(s) ==
  LET t == Strip(s) IN
  IF Len(t) > 0 /\ t[1] = "-" THEN 0 - ParseInt(IntBody(s)) ELSE ParseInt(IntBody(s))

\* What the user may type at the prompt.
Entries == { <<"1">>, <<" ", "3">>, <<"+", "2">>, <<"0">>, <<"4">>, <<"-", "1">>,
             <<"2", ".", "0">>, <<"x">>, <<>> }

OutOfRangeMsg == "Please enter an integer between 1 and 3 inclusive."
NotIntMsg == "That is not a valid integer. Please try again."

\* fmt="%3.6f" of a whole, non-negative number
Fmt6(x) == DecStr(x) \o <<".", "0", "0", "0", "0", "0", "0">>

\* np.column_stack((first, second)) written by np.savetxt(..., delimiter=",")
CsvRowsCrossed(first, second) ==
  [i \in 1..Len(first) |-> Fmt6(first[i]) \o <<",">> \o Fmt6(second[Len(second) + 1 - i])]

CsvRows(first, second) ==
  [i \in 1..Len(first) |-> Fmt6(first[i]) \o <<",">> \o Fmt6(second[i])]

\* file_name: f"resistor{resistor_num:n}.csv" in the resistor scripts
FileNameFixed(l, k) == <<"samples.csv">>

FileName(l, k) ==
  IF l \in Prompting THEN <<"resistor">> \o DecStr(k) \o <<".csv">> ELSE <<"samples.csv">>

Saved(l, k, first, second) == <<[name |-> FileName(l, k), rows |-> CsvRows(first, second)]>>

\* while True: cmd = usb_readline(); if cmd == "r": read_samples()
DevReadCommand ==
  /\ dpc = "waiting"
  /\ toDevice # <<>>
  /\ toDevice' = Tail(toDevice)
  /\ IF ReadLine(Head(toDevice)) = <<"r">>
     THEN /\ dpc' = "sampling"
          /\ dI' = 0
          /\ dFirst' = [i \in 1..SampleCount(lab) |-> Unset]
          /\ dSecond' = [i \in 1..SampleCount(lab) |-> Unset]
          /\ pinCharge' = IF lab = "rc_circuit" THEN TRUE ELSE pinCharge
          /\ reply' = <<>>
          /\ dPairs' = <<>>
     ELSE UNCHANGED <<dpc, dI, dFirst, dSecond, pinCharge, reply, dPairs>>
  /\ UNCHANGED <<nonSerialVars, lab, tick, toHost, hpc, hN, hI, hFirst, hSecond, runs, strays,
                 dacRaw, csv, resistor, said, tries>>

\* One iteration of a sampling loop: the stimulus and the response of the
\* same iteration go to the same index of the two arrays.
DevSample ==
  /\ dpc = "sampling"
  /\ dI < SampleCount(lab)
  /\ \E v \in Readings :
       /\ dFirst' = [dFirst EXCEPT ![dI + 1] = Stimulus(lab, dI, tick)]
       /\ dSecond' = [dSecond EXCEPT ![dI + 1] = v]
       /\ dPairs' = Append(dPairs, <<Stimulus(lab, dI, tick), v>>)
  /\ dacRaw' = IF lab \in Swept THEN Stimulus(lab, dI, tick) ELSE dacRaw
  /\ tick' = tick + 1
  /\ dI' = dI + 1
  \* rc_circuit: pin_charge goes low between its two loops
  /\ pinCharge' = IF lab = "rc_circuit" /\ dI + 1 = NScale THEN FALSE ELSE pinCharge
  /\ UNCHANGED <<nonSerialVars, lab, dpc, toDevice, toHost, reply, hpc, hN, hI, hFirst, hSecond,
                 runs, strays, csv, resistor, said, tries>>

\* The sampling loops are over: the DAC is turned off, "Sending samples".
DevStartSend ==
  /\ dpc = "sampling"
  /\ dI = SampleCount(lab)
  /\ dpc' = "sending"
  /\ dI' = 0
  /\ dacRaw' = IF lab \in Swept THEN 0 ELSE dacRaw
  /\ UNCHANGED <<nonSerialVars, lab, dFirst, dSecond, pinCharge, tick, toDevice, toHost, reply,
                 hpc, hN, hI, hFirst, hSecond, runs, strays, dPairs, csv, resistor, said, tries>>

\* One usb_writeline of read_samples.
DevSendLine ==
  /\ dpc = "sending"
  /\ dI < Len(ReplyLines(lab, dFirst, dSecond))
  /\ LET line == ReplyLines(lab, dFirst, dSecond)[dI + 1] IN
       /\ toHost' = Append(toHost, line)
       /\ reply' = Append(reply, line)
  /\ dI' = dI + 1
  /\ UNCHANGED <<nonSerialVars, lab, dpc, dFirst, dSecond, pinCharge, tick, toDevice,
                 hpc, hN, hI, hFirst, hSecond, runs, strays, dPairs, dacRaw, csv, resistor, said,
                 tries>>

\* read_samples returns; the main loop prints "Waiting" and reads again.
DevReturn ==
  /\ dpc = "sending"
  /\ dI = Len(ReplyLines(lab, dFirst, dSecond))
  /\ dpc' = "waiting"
  /\ UNCHANGED <<nonSerialVars, lab, dI, dFirst, dSecond, pinCharge, tick, toDevice, toHost, reply,
                 hpc, hN, hI, hFirst, hSecond, runs, strays, dPairs, dacRaw, csv, resistor, said,
                 tries>>

(***************************************************************************)
(* Serial labs, host side (read_samples.py), and ohms_read.py.             *)
(***************************************************************************)
\* One pass of the prompt loop: resistor_num = int(input(...)), accepted when
\* 1 <= resistor_num <= 3, else a message and the prompt again.  ohms_read.py
\* then allocates its arrays; read_samples.py goes on to send the command.
HostPrompt(entry) ==
  /\ hpc = "prompt"
  /\ IF IntAccepts(entry)
     THEN /\ resistor' = IntOf(entry)
          /\ IF 1 <= IntOf(entry) /\ IntOf(entry) <= 3
             THEN /\ hpc' = IF lab = "ohms_read" THEN "sweep" ELSE "start"
                  /\ said' = ""
                  /\ UNCHANGED tries
             ELSE /\ tries < MaxTries
                  /\ tries' = tries + 1
                  /\ said' = OutOfRangeMsg
                  /\ UNCHANGED hpc
     ELSE /\ tries < MaxTries
          /\ tries' = tries + 1
          /\ said' = NotIntMsg
          /\ UNCHANGED <<hpc, resistor>>
  /\ IF lab = "ohms_read" /\ hpc' = "sweep"
     THEN /\ hN' = SampleCount(lab)
          /\ hI' = 0
          /\ hFirst' = [i \in 1..SampleCount(lab) |-> 0]
          /\ hSecond' = [i \in 1..SampleCount(lab) |-> 0]
          /\ dPairs' = <<>>
     ELSE UNCHANGED <<hN, hI, hFirst, hSecond, dPairs>>
  /\ UNCHANGED <<nonSerialVars, lab, dpc, dI, dFirst, dSecond, pinCharge, tick, toDevice, toHost,
                 reply, runs, strays, dacRaw, csv>>

\* ohms_read.py: one iteration of the sweep the host script runs itself.
HostSweep ==
  /\ hpc = "sweep"
  /\ hI < hN
  /\ dacRaw' = Stimulus(lab, hI, tick)
  /\ \E v \in Readings :
       /\ hFirst' = [hFirst EXCEPT ![hI + 1] = Stimulus(lab, hI, tick)]
       /\ hSecond' = [hSecond EXCEPT ![hI + 1] = v]
       /\ dPairs' = Append(dPairs, <<Stimulus(lab, hI, tick), v>>)
  /\ hI' = hI + 1
  /\ UNCHANGED <<nonSerialVars, lab, dpc, dI, dFirst, dSecond, pinCharge, tick, toDevice, toHost,
                 reply, hpc, hN, runs, strays, csv, resistor, said, tries>>

\* ohms_read.py: the sweep is over: DAC off, the file saved.
HostSweepSave ==
  /\ hpc = "sweep"
  /\ hI = hN
  /\ dacRaw' = 0
  /\ csv' = Saved(lab, resistor, hFirst, hSecond)
  /\ hpc' = "done"
  /\ UNCHANGED <<nonSerialVars, lab, dpc, dI, dFirst, dSecond, pinCharge, tick, toDevice, toHost,
                 reply, hN, hI, hFirst, hSecond, runs, strays, dPairs, resistor, said, tries>>

\* usb_writeline("r")
HostSendRun ==
  /\ hpc = "start"
  /\ toDevice' = Append(toDevice, <<"r", "\n">>)
  /\ hpc' = "readN"
  /\ UNCHANGED <<nonSerialVars, lab, dpc, dI, dFirst, dSecond, pinCharge, tick, toHost, reply,
                 hN, hI, hFirst, hSecond, runs, strays, dPairs, dacRaw, csv, resistor, said, tries>>

\* n = int(usb_readline()); the arrays are np.zeros(n).  With n = 0 both
\* loops are empty and the script goes straight on to close and save.
HostReadCount ==
  /\ hpc = "readN"
  /\ toHost # <<>>
  /\ toHost' = Tail(toHost)
  /\ IF IsDecimal(ReadLine(Head(toHost)))
     THEN LET n == ParseInt(ReadLine(Head(toHost))) IN
          /\ hN' = n
          /\ hI' = 0
          /\ hFirst' = [i \in 1..n |-> 0]
          /\ hSecond' = [i \in 1..n |-> 0]
          /\ hpc' = IF n = 0 THEN "done" ELSE "readFirst"
          /\ csv' = IF n = 0 THEN Saved(lab, resistor, <<>>, <<>>) ELSE csv
     ELSE /\ hpc' = "failed"
          /\ UNCHANGED <<hN, hI, hFirst, hSecond, csv>>
  /\ UNCHANGED <<nonSerialVars, lab, dpc, dI, dFirst, dSecond, pinCharge, tick, toDevice, reply,
                 runs, strays, dPairs, dacRaw, resistor, said, tries>>

\* for i in range(n): first[i] = int/float(usb_readline())
HostReadFirst ==
  /\ hpc = "readFirst"
  /\ toHost # <<>>
  /\ toHost' = Tail(toHost)
  /\ IF IsDecimal(ReadLine(Head(toHost)))
     THEN /\ hFirst' = [hFirst EXCEPT ![hI + 1] = ParseInt(ReadLine(Head(toHost)))]
          /\ hI' = IF hI + 1 = hN THEN 0 ELSE hI + 1
          /\ hpc' = IF hI + 1 = hN THEN "readSecond" ELSE "readFirst"
     ELSE /\ hpc' = "failed"
          /\ UNCHANGED <<hFirst, hI>>
  /\ UNCHANGED <<nonSerialVars, lab, dpc, dI, dFirst, dSecond, pinCharge, tick, toDevice, reply,
                 hN, hSecond, runs, strays, dPairs, dacRaw, csv, resistor, said, tries>>

\* for i in range(n): second[i] = int/float(usb_readline()); after the last
\* one ser.close(), np.column_stack and np.savetxt.
HostReadSecond ==
  /\ hpc = "readSecond"
  /\ toHost # <<>>
  /\ toHost' = Tail(toHost)
  /\ IF IsDecimal(ReadLine(Head(toHost)))
     THEN /\ hSecond' = [hSecond EXCEPT ![hI + 1] = ParseInt(ReadLine(Head(toHost)))]
          /\ hI' = hI + 1
          /\ hpc' = IF hI + 1 = hN THEN "done" ELSE "readSecond"
          /\ csv' = IF hI + 1 = hN THEN Saved(lab, resistor, hFirst, hSecond') ELSE csv
     ELSE /\ hpc' = "failed"
          /\ UNCHANGED <<hSecond, hI, csv>>
  /\ UNCHANGED <<nonSerialVars, lab, dpc, dI, dFirst, dSecond, pinCharge, tick, toDevice, reply,
                 hN, hFirst, runs, strays, dPairs, dacRaw, resistor, said, tries>>

\* The user moves the saved file away and runs the host script again; the
\* device has kept running.
HostRerun ==
  /\ hpc \in {"done", "failed"}
  /\ runs < MaxRuns
  /\ runs' = runs + 1
  /\ hpc' = HostEntry(lab)
  /\ hN' = 0
  /\ hI' = 0
  /\ hFirst' = <<>>
  /\ hSecond' = <<>>
  /\ resistor' = 0
  /\ said' = ""
  /\ csv' = <<>>
  /\ UNCHANGED <<nonSerialVars, lab, dpc, dI, dFirst, dSecond, pinCharge, tick, toDevice, toHost,
                 reply, strays, dPairs, dacRaw, tries>>

\* Another program (a terminal) writes a line that is not the run command.
StrayLines == {<<"x", "\n">>, <<"\n">>}

StrayWrite ==
  /\ strays < MaxStray
  /\ strays' = strays + 1
  /\ \E s \in StrayLines : toDevice' = Append(toDevice, s)
  /\ UNCHANGED <<nonSerialVars, lab, dpc, dI, dFirst, dSecond, pinCharge, tick, toHost, reply,
                 hpc, hN, hI, hFirst, hSecond, runs, dPairs, dacRaw, csv, resistor, said, tries>>

\* The device has booted and waits (its DAC set to 0); the host script has
\* been started and has not yet written or saved anything.
SerialStart ==
  /\ dpc = "waiting"
  /\ dI = 0
  /\ dFirst = <<>>
  /\ dSecond = <<>>
  /\ pinCharge = FALSE
  /\ tick = 0
  /\ toDevice = <<>>
  /\ toHost = <<>>
  /\ reply = <<>>
  /\ hpc = HostEntry(lab)
  /\ hN = 0
  /\ hI = 0
  /\ hFirst = <<>>
  /\ hSecond = <<>>
  /\ runs = 1
  /\ strays = 0
  /\ dPairs = <<>>
  /\ dacRaw = 0
  /\ csv = <<>>
  /\ resistor = 0
  /\ said = ""
  /\ tries = 0

(***************************************************************************)
(* biot_savart.py: the sampling loop of main().                            *)
(***************************************************************************)
\* n = 15 current steps, num_samples = 50 readings per step
BsSteps == 15
BsSamples == 50

\* int(throttle * 65535) with throttle = i / (n - 1): i * 65535 / 14 is whole
\* only for i = 0 and 14 and otherwise at least 1/14 from a whole number, so
\* the float product truncates as the exact quotient does.
BsDutyOf(i) == (i * 65535) \div (BsSteps - 1)

\* The exception classes both except clauses name.
BsCaught == {"RuntimeError", "OSError"}

\* What a call into live hardware may do.
BsLiveOutcomes == {"ok"} \cup BsCaught

\* What a call through a bus that has been deinit()ed may do: it cannot
\* succeed, and the exception class is the library's choice.
BsDeadOutcomes == BsCaught \cup {"other"}

\* magnetometer.magnetic
BsReadOutcomes(magLive) == IF magLive THEN BsLiveOutcomes ELSE BsDeadOutcomes

\* try_lock / unlock / deinit on i2c_bus0
BsReleaseOutcomes(busLive) == IF busLive THEN {"ok"} ELSE {"ok"} \cup BsDeadOutcomes

\* After construction and setup (lines 47-69): magnet driver awake, PWM idle.
BiotStart ==
  /\ bsPc = "outer"
  /\ bsI = 0
  /\ bsJ = 0
  /\ bsDuty = 0
  /\ bsSleepPin = TRUE
  /\ bsBusLive = TRUE
  /\ bsMagLive = TRUE
  /\ bsIters = 0
  /\ bsFaults = 0
  /\ bsLast = "none"

\* for i in range(n): throttle, motor_pwm_1.duty_cycle, num_samples
BsSetThrottle ==
  /\ bsPc = "outer"
  /\ bsI < BsSteps
  /\ bsDuty' = BsDutyOf(bsI)
  /\ bsJ' = 0
  /\ bsPc' = "inner"
  /\ UNCHANGED <<nonBiotVars, bsI, bsSleepPin, bsBusLive, bsMagLive, bsIters, bsFaults, bsLast>>

\* The number of errors among outcomes that live hardware raised.
BsCount(live, outcome) == IF live /\ outcome # "ok" THEN 1 ELSE 0

\* One pass of the inner loop body whose magnetometer read succeeds.
BsSampleOk ==
  /\ bsPc = "inner"
  /\ bsJ < BsSamples
  /\ "ok" \in BsReadOutcomes(bsMagLive)
  /\ bsJ' = bsJ + 1
  /\ bsIters' = bsIters + 1
  /\ bsLast' = "read"
  /\ UNCHANGED <<nonBiotVars, bsPc, bsI, bsDuty, bsSleepPin, bsBusLive, bsMagLive, bsFaults>>

\* One pass whose magnetometer read raises something the except clause does
\* not name: main() is left with the exception.
BsSampleUncaught ==
  /\ bsPc = "inner"
  /\ bsJ < BsSamples
  /\ "other" \in BsReadOutcomes(bsMagLive)
  /\ bsPc' = "crashed"
  /\ bsLast' = "read raised"
  /\ UNCHANGED <<nonBiotVars, bsI, bsJ, bsDuty, bsSleepPin, bsBusLive, bsMagLive, bsIters,
                 bsFaults>>

\* One pass whose magnetometer read raises RuntimeError or OSError: the
\* handler releases and deinit()s i2c_bus0 (release), makes a new bus (bus)
\* and a new magnetometer on it (mag); the first of these to raise ends the
\* handler, swallowed if it is a RuntimeError or OSError.
BsSampleReinit(read, release, bus, mag) ==
  /\ bsPc = "inner"
  /\ bsJ < BsSamples
  /\ read \in BsReadOutcomes(bsMagLive) \cap BsCaught
  /\ release \in BsReleaseOutcomes(bsBusLive)
  /\ bus \in BsLiveOutcomes
  /\ mag \in BsLiveOutcomes
  /\ release # "ok" => bus = "ok" /\ mag = "ok"
  /\ bus # "ok" => mag = "ok"
  /\ bsFaults + BsCount(bsMagLive, read)
       + (IF release = "ok" THEN BsCount(TRUE, bus) + BsCount(TRUE, mag) ELSE 0) <= MaxFaults
  /\ bsFaults' = bsFaults + BsCount(bsMagLive, read)
       + (IF release = "ok" THEN BsCount(TRUE, bus) + BsCount(TRUE, mag) ELSE 0)
  /\ IF release = "other"
     THEN /\ bsPc' = "crashed"
          /\ bsLast' = "reinit raised"
          /\ UNCHANGED <<bsJ, bsIters, bsBusLive, bsMagLive>>
     ELSE /\ bsPc' = "inner"
          /\ bsJ' = bsJ + 1
          /\ bsIters' = bsIters + 1
          /\ IF release # "ok"
             THEN /\ bsLast' = "reinit swallowed"
                  /\ UNCHANGED <<bsBusLive, bsMagLive>>
             ELSE /\ bsBusLive' = (bus = "ok")
                  /\ bsMagLive' = (bus = "ok" /\ mag = "ok")
                  /\ bsLast' = IF bus = "ok" /\ mag = "ok" THEN "reinit" ELSE "reinit swallowed"
  /\ UNCHANGED <<nonBiotVars, bsI, bsDuty, bsSleepPin>>

\* current[i] /= num_samples; field_strength[i] /= num_samples; next i
BsEndStep ==
  /\ bsPc = "inner"
  /\ bsJ = BsSamples
  /\ bsI' = bsI + 1
  /\ bsPc' = "outer"
  /\ UNCHANGED <<nonBiotVars, bsJ, bsDuty, bsSleepPin, bsBusLive, bsMagLive, bsIters, bsFaults,
                 bsLast>>

\* Turn off motor driver and clean up.
BsCleanUp ==
  /\ bsPc = "outer"
  /\ bsI = BsSteps
  /\ bsDuty' = 0
  /\ bsSleepPin' = FALSE
  /\ bsPc' = "done"
  /\ UNCHANGED <<nonBiotVars, bsI, bsJ, bsBusLive, bsMagLive, bsIters, bsFaults, bsLast>>

(***************************************************************************)
(* frequency_counter.py / geiger_counter.py: one measurement is            *)
(*   t0 = time.perf_counter_ns(); counter.zero();                          *)
(*   while time.perf_counter_ns() - t0 < 1_000_000_000: pass               *)
(*   counter.read_counter(signed=False)                                    *)
(* Times are in ns since t0.                                               *)
(***************************************************************************)
\* The threshold of the busy-wait loop.
FcWindow == 1000000000

\* From the call of zero() / read_counter() to the moment the chip acts on
\* the opcode: 8 bits at 1 MHz, plus what the interpreter and the bus
\* adapter add.
FcSpiDelays == {8000, 16000}

\* From one evaluation of the loop condition to the next, the scheduler
\* willing.
FcPollGaps == {499992000, 500000000, 500001000}

\* The input signals: 1 kHz and 2.5 kHz.
FcPeriods == {1000000, 400000}
FcPhases == {0, 399999}

\* Pulses the input has made by time t.
FcPulsesBy(t) == (t + fcPhase) \div fcPeriod

\* Before the first measurement.
FcIdle ==
  /\ fcPc = "t0"
  /\ fcElapsed = 0
  /\ fcPeriod = 1000000
  /\ fcPhase = 0
  /\ fcClearAt = -1
  /\ fcLatchAt = -1
  /\ fcRet = 0
  /\ fcDone = 0

\* t0 = time.perf_counter_ns(), with the clock generator set for this
\* measurement.
FcTakeT0(period, phase) ==
  /\ fcPc = "t0"
  /\ fcDone < MaxMeasure
  /\ fcElapsed' = 0
  /\ fcPeriod' = period
  /\ fcPhase' = phase
  /\ fcClearAt' = -1
  /\ fcLatchAt' = -1
  /\ fcPc' = "zero"
  /\ UNCHANGED <<nonFcVars, fcRet, fcDone>>

\* counter.zero(): CLR_CNTR reaches the chip d ns after the call.
FcZero(d) ==
  /\ fcPc = "zero"
  /\ fcElapsed' = fcElapsed + d
  /\ fcClearAt' = fcElapsed + d
  /\ fcPc' = "spin"
  /\ UNCHANGED <<nonFcVars, fcPeriod, fcPhase, fcLatchAt, fcRet, fcDone>>

\* One evaluation of the loop condition: true, and gap ns pass until the
\* next; or false, and the loop is left.
FcPoll(gap) ==
  /\ fcPc = "spin"
  /\ IF fcElapsed < FcWindow
     THEN /\ fcElapsed' = fcElapsed + gap
          /\ UNCHANGED fcPc
     ELSE /\ fcPc' = "read"
          /\ UNCHANGED fcElapsed
  /\ UNCHANGED <<nonFcVars, fcPeriod, fcPhase, fcClearAt, fcLatchAt, fcRet, fcDone>>

\* counter.read_counter(signed=False): RD_CNTR latches the count d ns after
\* the call; the count is the pulses since the clear.
FcReadCounter(d) ==
  /\ fcPc = "read"
  /\ fcElapsed' = fcElapsed + d
  /\ fcLatchAt' = fcElapsed + d
  /\ fcRet' = FcPulsesBy(fcElapsed + d) - FcPulsesBy(fcClearAt)
  /\ fcDone' = fcDone + 1
  /\ fcPc' = "t0"
  /\ UNCHANGED <<nonFcVars, fcPeriod, fcPhase, fcClearAt>>

(***************************************************************************)
(* count_by_looping/code.py: read_samples().  Times are in microseconds.   *)
(***************************************************************************)
\* 10_000_000_000 ns
CbWindow == 10000000

\* From one reading of the pin to the next.
CbGaps == {3000000, 4000000}

\* The clock as the model keeps it: past CbLate only "later than the window"
\* is remembered, which is all line 57 asks of it.
CbLate == 12000000
CbAdvance(t, gap) == IF t + gap > CbLate THEN CbLate ELSE t + gap

\* The device has booted and waits for a command; the pull-up holds the pin.
CbIdle ==
  /\ cbPc = "waiting"
  /\ cbPin = TRUE
  /\ cbCounts = 0
  /\ cbElapsed = 0
  /\ cbLines = <<>>
  /\ cbRuns = 0

\* cmd == "r": read_samples() starts: counts = 0, time_start taken.
CbRun ==
  /\ cbPc = "waiting"
  /\ cbRuns < MaxRuns
  /\ cbRuns' = cbRuns + 1
  /\ cbCounts' = 0
  /\ cbElapsed' = 0
  /\ cbLines' = <<>>
  /\ cbPc' = "fall"
  /\ UNCHANGED <<nonCbVars, cbPin>>

\* while pin_pulse.value is True: pass
CbWaitFall(gap) ==
  /\ cbPc = "fall"
  /\ cbElapsed' = CbAdvance(cbElapsed, gap)
  /\ cbPc' = IF cbPin THEN "fall" ELSE "rise"
  /\ UNCHANGED <<nonCbVars, cbPin, cbCounts, cbLines, cbRuns>>

\* while pin_pulse.value is False: pass; then counts += 1 and the time check
CbWaitRise(gap) ==
  /\ cbPc = "rise"
  /\ cbElapsed' = CbAdvance(cbElapsed, gap)
  /\ IF ~cbPin
     THEN UNCHANGED <<cbPc, cbCounts>>
     ELSE /\ cbCounts' = cbCounts + 1
          /\ cbPc' = IF CbAdvance(cbElapsed, gap) > CbWindow THEN "write" ELSE "fall"
  /\ UNCHANGED <<nonCbVars, cbPin, cbLines, cbRuns>>

\* usb_writeline(counts); read_samples returns to the main loop
CbWrite ==
  /\ cbPc = "write"
  /\ cbLines' = Append(cbLines, LineOf(cbCounts))
  /\ cbPc' = "waiting"
  /\ UNCHANGED <<nonCbVars, cbPin, cbCounts, cbElapsed, cbRuns>>

\* The signal on the pin changes level.
CbPinChange ==
  /\ cbPin' = ~cbPin
  /\ UNCHANGED <<nonCbVars, cbPc, cbCounts, cbElapsed, cbLines, cbRuns>>

\* What the device does, as opposed to the signal.
CbDevice ==
  \/ CbRun
  \/ \E gap \in CbGaps : CbWaitFall(gap)
  \/ \E gap \in CbGaps : CbWaitRise(gap)
  \/ CbWrite

(***************************************************************************)
(* Bit operations on non-negative ints.                                    *)
(***************************************************************************)
RECURSIVE BitAnd(_, _)
BitAnd(a, b) ==
  IF a = 0 \/ b = 0 THEN 0
  ELSE (a % 2) * (b % 2) + 2 * BitAnd(a \div 2, b \div 2)

BitOr(a, b) == a + b - BitAnd(a, b)

\* a & ~m
BitClear(a, m) == a - BitAnd(a, m)

HasBits(a, m) == BitAnd(a, m) # 0

(***************************************************************************)
(* AD9833 driver (ad9833_blinka.py).                                       *)
(***************************************************************************)
B28 == 8192
HLB == 4096
FSELECT == 2048
PSELECT == 1024
RESET == 256
SLEEP1 == 128
SLEEP12 == 64
OPBITEN == 32
DIV2 == 8
MODE == 2
FREQ0_PREFIX == 16384
FREQ1_PREFIX == 32768
\* the default mclk of __init__, which every script of the repository uses
MCLK == 25000000

\* An optional argument: <<>> is None, <<x>> is x.
None == <<>>
Some(x) == <<x>>

\* `1 if reg else 0`
Truthy01(reg) == IF reg # 0 THEN 1 ELSE 0

\* _write_words(words): w &= 0xFFFF, then the high byte and the low byte of
\* each word, all in one spi.write.
WordBytes(w) == <<((w % 65536) \div 256) % 256, (w % 65536) % 256>>

RECURSIVE WriteWordsBytes(_)
WriteWordsBytes(words) ==
  IF words = <<>> THEN <<>>
  ELSE WordBytes(Head(words)) \o WriteWordsBytes(Tail(words))

\* _write_control(): the word pushed for a given self._control.
ControlWord(control) == BitAnd(control, 16383)

\* One transaction carrying the control word.
ControlWrite(control) == WriteWordsBytes(<<ControlWord(control)>>)

\* Long division: floor(r * 2^bits / m) and the remainder, for 0 <= r < m.
RECURSIVE LongDiv(_, _, _, _)
LongDiv(rem, m, bits, acc) ==
  IF bits = 0 THEN <<acc, rem>>
  ELSE IF 2 * rem >= m THEN LongDiv(2 * rem - m, m, bits - 1, 2 * acc + 1)
       ELSE LongDiv(2 * rem, m, bits - 1, 2 * acc)

\* round(hz * (1 << 28) / mclk) for an integer hz with 0 <= hz < 7 * mclk:
\* exact quotient, ties to even as Python's round.  (For integer hz and
\* mclk = 25e6 the quotient is never within 1e-6 of a tie, so the float
\* division rounds the same way.)
RoundedQuotient(hz, mclk) ==
  LET d == LongDiv(hz % mclk, mclk, 28, 0)
      f == d[1]
      r == d[2]
      up == (2 * r > mclk) \/ (2 * r = mclk /\ f % 2 = 1)
  IN (hz \div mclk) * 268435456 + f + (IF up THEN 1 ELSE 0)

\* word28 = int(round(hz * (1 << 28) / self.mclk)) & 0x0FFFFFFF
Word28(hz) == BitAnd(RoundedQuotient(hz, MCLK), 268435455)

\* The tuning words of the frequencies the model uses, computed once.
ValidFreqs == {0, 100000, 24999999, 25000000}
Word28Table == [hz \in ValidFreqs |-> Word28(hz)]

\* set_frequency: the two words written, in the order written.
FrequencyWordsMswFirst(hz, reg) ==
  LET prefix == IF reg = 1 THEN FREQ1_PREFIX ELSE FREQ0_PREFIX IN
  <<BitOr(prefix, BitAnd(Word28Table[hz] \div 16384, 16383)),
    BitOr(prefix, BitAnd(Word28Table[hz], 16383))>>

FrequencyWords(hz, reg) ==
  LET prefix == IF reg = 1 THEN FREQ1_PREFIX ELSE FREQ0_PREFIX
      lsw == BitOr(prefix, BitAnd(Word28Table[hz], 16383))
      msw == BitOr(prefix, BitAnd(Word28Table[hz] \div 16384, 16383))
  IN <<lsw, msw>>

\* The waveform getter.
WaveformGet(control) ==
  IF HasBits(control, OPBITEN) THEN <<"s","q","u","a","r","e">>
  ELSE IF HasBits(control, MODE) THEN <<"t","r","i","a","n","g","l","e">>
  ELSE <<"s","i","n","e">>

WaveformNames == {<<"s","i","n","e">>, <<"t","r","i","a","n","g","l","e">>,
                  <<"s","q","u","a","r","e">>}

\* The waveform setter's new self._control for an accepted (stripped, lowered) name.
WaveformControlKeepsMode(control, name) ==
  IF name = <<"s","i","n","e">> THEN BitClear(BitClear(control, OPBITEN + DIV2), SLEEP12)
  ELSE IF name = <<"t","r","i","a","n","g","l","e">>
       THEN BitClear(BitOr(BitClear(control, OPBITEN + DIV2), MODE), SLEEP12)
       ELSE BitOr(BitOr(BitOr(BitClear(control, DIV2), OPBITEN), DIV2), SLEEP12)

WaveformControl(control, name) ==
  LET cleared == BitClear(control, OPBITEN + MODE + DIV2) IN
  IF name = <<"s","i","n","e">> THEN BitClear(cleared, SLEEP12)
  ELSE IF name = <<"t","r","i","a","n","g","l","e">>
       THEN BitClear(BitOr(cleared, MODE), SLEEP12)
       ELSE BitOr(BitClear(BitOr(BitOr(cleared, OPBITEN), DIV2), MODE), SLEEP12)

\* The frequency getter: getattr(self, "_freq_cache_" + str(self._freq_sel), 0.0)
FrequencyGet(cache, sel) == IF cache[sel] = <<>> THEN 0 ELSE cache[sel][1]

\* A call record: the method and its arguments.
Call(name) == [name |-> name, kind |-> <<>>, hz |-> 0, reg |-> None,
               st |-> None, dac |-> None, clock |-> None]

\* Inputs.
StateChoices == {None, Some(TRUE), Some(FALSE)}
RegChoices == {0, 1, 2}
OptRegChoices == {None} \cup {Some(r) : r \in RegChoices}
FreqChoices == {-1} \cup ValidFreqs
KindChoices == {<<"s","i","n","e">>, <<" ","S","i","n","e","\n">>,
                <<"T","R","I","A","N","G","L","E">>, <<"t","r","i","a","n","g","l","e">>,
                <<"S","q","u","a","r","e"," ">>, <<"s","q","u","a","r","e">>,
                <<"s","a","w">>, <<"s","i"," ","n","e">>, <<>>}

\* State after AD9833(spi, cs): B28 set, FREQ0/PHASE0 selected, one control write.
AdConstructed ==
  /\ adControl = B28
  /\ adFreqSel = 0
  /\ adPhaseSel = 0
  /\ adCache = [r \in {0, 1} |-> <<>>]
  /\ adWritten = [r \in {0, 1} |-> <<>>]
  /\ adOp = Call("__init__")
  /\ adPrev = 0
  /\ adLog = <<ControlWrite(B28)>>
  /\ adRaised = FALSE
  /\ adRet = 0

\* reset(): self._control |= _RESET
ResetFirstWriteAssign(control) == RESET

ResetFirstWrite(control) == BitOr(control, RESET)

\* reset(): self._control &= ~_RESET
ResetSecondWriteKeeps(control) == control

ResetSecondWrite(control) == BitClear(control, RESET)

\* reset(state=None | True | False)

AdReset(st) ==
  /\ adOp' = [Call("reset") EXCEPT !.st = st]
  /\ adPrev' = adControl
  /\ adRaised' = FALSE
  /\ IF st = None
     THEN /\ adControl' = ResetSecondWrite(ResetFirstWrite(adControl))
          /\ adLog' = <<ControlWrite(ResetFirstWrite(adControl)),
                        ControlWrite(ResetSecondWrite(ResetFirstWrite(adControl)))>>
     ELSE IF st[1]
          THEN /\ adControl' = ResetFirstWrite(adControl)
               /\ adLog' = <<ControlWrite(ResetFirstWrite(adControl))>>
          ELSE /\ adControl' = ResetSecondWrite(adControl)
               /\ adLog' = <<ControlWrite(ResetSecondWrite(adControl))>>
  /\ UNCHANGED <<adFreqSel, adPhaseSel, adCache, adWritten, nonAdVars>>
  /\ adRet' = 0

\* select_frequency_register(reg)
AdSelectFrequencyRegister(reg) ==
  LET r == Truthy01(reg)
      c == IF r = 1 THEN BitOr(adControl, FSELECT) ELSE BitClear(adControl, FSELECT)
  IN
  /\ adOp' = [Call("select_frequency_register") EXCEPT !.reg = Some(reg)]
  /\ adPrev' = adControl
  /\ adRaised' = FALSE
  /\ adFreqSel' = r
  /\ adControl' = c
  /\ adLog' = <<ControlWrite(c)>>
  /\ UNCHANGED <<adPhaseSel, adCache, adWritten, nonAdVars>>
  /\ adRet' = 0

\* select_phase_register(reg)
AdSelectPhaseRegister(reg) ==
  LET r == Truthy01(reg)
      c == IF r = 1 THEN BitOr(adControl, PSELECT) ELSE BitClear(adControl, PSELECT)
  IN
  /\ adOp' = [Call("select_phase_register") EXCEPT !.reg = Some(reg)]
  /\ adPrev' = adControl
  /\ adRaised' = FALSE
  /\ adPhaseSel' = r
  /\ adControl' = c
  /\ adLog' = <<ControlWrite(c)>>
  /\ UNCHANGED <<adFreqSel, adCache, adWritten, nonAdVars>>
  /\ adRet' = 0

\* set_frequency(hz, reg=reg): raises for hz < 0, else one write of two words.
AdSetFrequency(hz, reg) ==
  /\ adOp' = [Call("set_frequency") EXCEPT !.hz = hz, !.reg = reg]
  /\ adPrev' = adControl
  /\ IF hz < 0
     THEN /\ adRaised' = TRUE
          /\ adLog' = <<>>
          /\ UNCHANGED adWritten
     ELSE LET r == IF reg = None THEN adFreqSel ELSE Truthy01(reg[1]) IN
          /\ adRaised' = FALSE
          /\ adLog' = <<WriteWordsBytes(FrequencyWords(hz, r))>>
          /\ adWritten' = [adWritten EXCEPT ![r] = Some(hz)]
  /\ UNCHANGED <<adControl, adFreqSel, adPhaseSel, adCache, nonAdVars>>
  /\ adRet' = 0

\* frequency = hz: set_frequency(hz, reg=self._freq_sel), then the cache.
AdFrequencySet(hz) ==
  /\ adOp' = [Call("frequency.setter") EXCEPT !.hz = hz]
  /\ adPrev' = adControl
  /\ IF hz < 0
     THEN /\ adRaised' = TRUE
          /\ adLog' = <<>>
          /\ UNCHANGED <<adWritten, adCache>>
     ELSE /\ adRaised' = FALSE
          /\ adLog' = <<WriteWordsBytes(FrequencyWords(hz, Truthy01(adFreqSel)))>>
          /\ adWritten' = [adWritten EXCEPT ![Truthy01(adFreqSel)] = Some(hz)]
          /\ adCache' = [adCache EXCEPT ![adFreqSel] = Some(hz)]
  /\ UNCHANGED <<adControl, adFreqSel, adPhaseSel, nonAdVars>>
  /\ adRet' = 0

\* x = frequency
AdFrequencyGet ==
  /\ adOp' = Call("frequency.getter")
  /\ adPrev' = adControl
  /\ adRaised' = FALSE
  /\ adLog' = <<>>
  /\ adRet' = FrequencyGet(adCache, adFreqSel)
  /\ UNCHANGED <<adControl, adFreqSel, adPhaseSel, adCache, adWritten, nonAdVars>>

\* waveform = kind
AdWaveformSet(kind) ==
  LET kind_l == Lower(Strip(kind)) IN
  /\ adOp' = [Call("waveform.setter") EXCEPT !.kind = kind]
  /\ adPrev' = adControl
  /\ IF kind_l \notin WaveformNames
     THEN /\ adRaised' = TRUE
          /\ adLog' = <<>>
          /\ UNCHANGED adControl
     ELSE /\ adRaised' = FALSE
          /\ adControl' = WaveformControl(adControl, kind_l)
          /\ adLog' = <<ControlWrite(WaveformControl(adControl, kind_l))>>
  /\ UNCHANGED <<adFreqSel, adPhaseSel, adCache, adWritten, nonAdVars>>
  /\ adRet' = 0

\* sleep(dac=..., clock=...)
AdSleep(dac, clock) ==
  LET c1 == IF dac = None THEN adControl
            ELSE IF dac[1] THEN BitOr(adControl, SLEEP12) ELSE BitClear(adControl, SLEEP12)
      c2 == IF clock = None THEN c1
            ELSE IF clock[1] THEN BitOr(c1, SLEEP1) ELSE BitClear(c1, SLEEP1)
  IN
  /\ adOp' = [Call("sleep") EXCEPT !.dac = dac, !.clock = clock]
  /\ adPrev' = adControl
  /\ adRaised' = FALSE
  /\ adControl' = c2
  /\ adLog' = <<ControlWrite(c2)>>
  /\ UNCHANGED <<adFreqSel, adPhaseSel, adCache, adWritten, nonAdVars>>
  /\ adRet' = 0

(***************************************************************************)
(* Python ints beyond 31 bits: <<h, l>> stands for h * 65536 + l with      *)
(* 0 <= l < 65536; h carries the sign.                                     *)
(***************************************************************************)
PyNorm(h, l) == <<h + (l \div 65536), l % 65536>>
PySub(a, b) == PyNorm(a[1] - b[1], a[2] - b[2])
\* 1 << (8 * n) for n in 0..4
PyShl8(n) == IF n <= 1 THEN <<0, 256 ^ n>> ELSE <<256 ^ (n - 2), 0>>
\* a & m for 0 <= m < 2^32 (two's complement for a negative a)
PyAnd(a, m) == <<BitAnd(a[1] % 65536, m[1]), BitAnd(a[2], m[2])>>
PyIsZero(a) == a = <<0, 0>>

\* int.from_bytes(raw, "big", signed=False) for up to four bytes
RECURSIVE FromBytesBigAcc(_, _)
FromBytesBigAcc(raw, acc) ==
  IF raw = <<>> THEN acc
  ELSE FromBytesBigAcc(Tail(raw),
         <<acc[1] * 256 + (acc[2] \div 256), (acc[2] % 256) * 256 + Head(raw)>>)

FromBytesBig(raw) == FromBytesBigAcc(raw, <<0, 0>>)

\* value.to_bytes(n, "big", signed=False) raises OverflowError unless 0 <= value < 256^n
ToBytesFits(v, n) ==
  /\ v[1] >= 0
  /\ IF n = 1 THEN v[1] = 0 /\ v[2] < 256
     ELSE IF n = 2 THEN v[1] = 0
     ELSE IF n = 3 THEN v[1] < 256
     ELSE v[1] < 65536

ToBytesBig(v, n) ==
  LET all == <<(v[1] \div 256) % 256, v[1] % 256, (v[2] \div 256) % 256, v[2] % 256>>
  IN SubSeq(all, 5 - n, 4)

(***************************************************************************)
(* LS7366R chip, as the driver's opcode table describes it.                *)
(***************************************************************************)
CLR_CNTR == 32
RD_MDR1 == 80
RD_CNTR == 96
WR_MDR0 == 136
WR_MDR1 == 144
WR_DTR == 152
LOAD_CNTR == 224
LOAD_OTR == 228

\* One SPI transfer with CS low: the opcode, the data written, the data read.
Xfer(opcode, out, inp) == [opcode |-> opcode, out |-> out, inp |-> inp]

\* The counter width the chip is in: MDR1 B1..B0 = 00 -> 4 bytes ... 11 -> 1 byte.
ChipWidth(mdr1) == 4 - (mdr1 % 4)

\* The active (low-order) n bytes of a register, most significant first.
LowBytes(reg, n) == SubSeq(reg, 5 - n, 4)

\* A register with its active bytes replaced.
WithLowBytes(reg, data) == SubSeq(reg, 1, 4 - Len(data)) \o data

\* What the chip shifts out when k bytes are clocked from a register of width n.
ChipShiftOut(reg, n, k) ==
  [i \in 1..k |-> IF i <= n THEN LowBytes(reg, n)[i] ELSE 0]

\* What the chip keeps when data is clocked into a register of width n.
ChipShiftIn(reg, n, data) ==
  IF Len(data) >= n THEN WithLowBytes(reg, SubSeq(data, 1, n))
  ELSE WithLowBytes(reg, data \o SubSeq(LowBytes(reg, n), Len(data) + 1, n))

\* Counting up by one, wrapping at the width.
RECURSIVE IncBytes(_)
IncBytes(b) ==
  IF b = <<>> THEN <<>>
  ELSE IF b[Len(b)] = 255 THEN IncBytes(SubSeq(b, 1, Len(b) - 1)) \o <<0>>
       ELSE SubSeq(b, 1, Len(b) - 1) \o <<b[Len(b)] + 1>>

(***************************************************************************)
(* LS7366R driver (ls7366r_blinka.py).                                     *)
(***************************************************************************)
LsCall(name) == [name |-> name, v |-> <<0, 0>>, k |-> 0, flag |-> FALSE]

\* Inputs.  write_dtr: -1, 0x17F807FFF (wider than 4 bytes) and -0x7F808000
\* (low 32 bits 0x807F8000); between them the sign bit of every width is
\* once set and once clear.
DtrChoices == {<<-1, 65535>>, <<98176, 32767>>, <<-32641, 32768>>}
NbytesChoices == {0, 1, 2, 3, 4, 5}
Mdr1Choices == {0, 169, 510}
\* CNTR and DTR are whatever the chip powered up with: __init__ does not clear them.
\* 0x7F807FFF and 0x807F8000: the sign bit of every width once set, once clear.
PowerOnRegs == {<<0, 0, 0, 0>>, <<127, 128, 127, 255>>, <<128, 127, 128, 0>>}
\* The mdr1 argument of the constructor: BYTE_4 (the default) .. BYTE_1.
CtorMdr1Choices == {0, 1, 2, 3}

\* write_mdr1(value): the byte sent and the width tracked
Mdr1Byte(value) == BitAnd(value, 255)
TrackedWidth(value) == 4 - BitAnd(value, 3)

\* set_counter_bytes: (m1 & ~0x03) | {4: 0x00, 3: 0x01, 2: 0x02, 1: 0x03}[nbytes]
WidthCode(nbytes) == 4 - nbytes

CounterBytesMdr1NoClear(m1, nbytes) == BitOr(m1, WidthCode(nbytes))

CounterBytesMdr1(m1, nbytes) == BitOr(BitClear(m1, 3), WidthCode(nbytes))

\* write_dtr: value &= (1 << (8 * n)) - 1
DtrTruncateNone(value, n) == value

DtrTruncate(value, n) == PyAnd(value, PySub(PyShl8(n), <<0, 1>>))

\* read_counter: the int returned for the bytes read
CounterValueUnsignedOnly(raw, n, signed) == FromBytesBig(raw)

CounterValue(raw, n, signed) ==
  LET val == FromBytesBig(raw)
  IN IF ~signed THEN val
     ELSE IF ~PyIsZero(PyAnd(val, IF n <= 2 THEN <<0, 2 ^ (8 * n - 1)>>
                                            ELSE <<2 ^ (8 * n - 17), 0>>))
          THEN PySub(val, PyShl8(n))
          ELSE val

\* State after LS7366R(spi, cs_pin, mdr1=mdr1) with the default mdr0.
LsConstructed(mdr1) ==
  /\ lsNbytes = TrackedWidth(mdr1)
  /\ lsMDR0 = 0
  /\ lsMDR1 = Mdr1Byte(mdr1)
  /\ lsCNTR \in PowerOnRegs
  /\ lsDTR \in PowerOnRegs
  /\ lsOp = [LsCall("__init__") EXCEPT !.k = mdr1]
  /\ lsPrev = <<0, 4>>
  /\ lsLog = <<Xfer(WR_MDR0, <<0>>, <<>>), Xfer(WR_MDR1, <<Mdr1Byte(mdr1)>>, <<>>)>>
  /\ lsRaised = FALSE
  /\ lsRet = <<0, 0>>
  /\ lsChain = 0
  /\ pulses = 0

\* The same, with the chip's undefined registers fixed, for the specifications
\* that do not exercise this driver.
LsIdle ==
  /\ LsConstructed(0)
  /\ lsCNTR = <<0, 0, 0, 0>>
  /\ lsDTR = <<0, 0, 0, 0>>

\* write_mdr1(value)
LsWriteMdr1(value) ==
  /\ lsOp' = [LsCall("write_mdr1") EXCEPT !.k = value]
  /\ lsPrev' = <<lsMDR1, lsNbytes>>
  /\ lsLog' = <<Xfer(WR_MDR1, <<Mdr1Byte(value)>>, <<>>)>>
  /\ lsMDR1' = Mdr1Byte(value)
  /\ lsNbytes' = TrackedWidth(value)
  /\ lsRaised' = FALSE
  /\ lsRet' = <<0, 0>>
  /\ lsChain' = 0
  /\ UNCHANGED <<lsMDR0, lsCNTR, lsDTR, pulses, nonLsVars>>

\* read_mdr1()
LsReadMdr1 ==
  /\ lsOp' = LsCall("read_mdr1")
  /\ lsPrev' = <<lsMDR1, lsNbytes>>
  /\ lsLog' = <<Xfer(RD_MDR1, <<>>, <<lsMDR1>>)>>
  /\ lsRaised' = FALSE
  /\ lsRet' = <<0, lsMDR1>>
  /\ lsChain' = 0
  /\ UNCHANGED <<lsNbytes, lsMDR0, lsMDR1, lsCNTR, lsDTR, pulses, nonLsVars>>

\* enable_counting(enable): read MDR1, clear / set B2, write it back
LsEnableCounting(enable) ==
  LET m1 == IF enable THEN BitClear(lsMDR1, 4) ELSE BitOr(lsMDR1, 4) IN
  /\ lsOp' = [LsCall("enable_counting") EXCEPT !.flag = enable]
  /\ lsPrev' = <<lsMDR1, lsNbytes>>
  /\ lsLog' = <<Xfer(RD_MDR1, <<>>, <<lsMDR1>>), Xfer(WR_MDR1, <<Mdr1Byte(m1)>>, <<>>)>>
  /\ lsMDR1' = Mdr1Byte(m1)
  /\ lsNbytes' = TrackedWidth(m1)
  /\ lsRaised' = FALSE
  /\ lsRet' = <<0, 0>>
  /\ lsChain' = 0
  /\ UNCHANGED <<lsMDR0, lsCNTR, lsDTR, pulses, nonLsVars>>

\* set_counter_bytes(nbytes)
LsSetCounterBytes(nbytes) ==
  /\ lsOp' = [LsCall("set_counter_bytes") EXCEPT !.k = nbytes]
  /\ lsPrev' = <<lsMDR1, lsNbytes>>
  /\ lsRet' = <<0, 0>>
  /\ lsChain' = 0
  /\ IF nbytes \notin {1, 2, 3, 4}
     THEN /\ lsRaised' = TRUE
          /\ lsLog' = <<>>
          /\ UNCHANGED <<lsMDR1, lsNbytes>>
     ELSE LET m1 == CounterBytesMdr1(lsMDR1, nbytes) IN
          /\ lsRaised' = FALSE
          /\ lsLog' = <<Xfer(RD_MDR1, <<>>, <<lsMDR1>>),
                        Xfer(WR_MDR1, <<Mdr1Byte(m1)>>, <<>>)>>
          /\ lsMDR1' = Mdr1Byte(m1)
          /\ lsNbytes' = TrackedWidth(m1)
  /\ UNCHANGED <<lsMDR0, lsCNTR, lsDTR, pulses, nonLsVars>>

\* configure_non_quadrature_4byte(count_enable)
LsConfigure(count_enable) ==
  LET m1 == IF count_enable THEN 0 ELSE 4 IN
  /\ lsOp' = [LsCall("configure_non_quadrature_4byte") EXCEPT !.flag = count_enable]
  /\ lsPrev' = <<lsMDR1, lsNbytes>>
  /\ lsLog' = <<Xfer(WR_MDR0, <<0>>, <<>>), Xfer(WR_MDR1, <<Mdr1Byte(m1)>>, <<>>)>>
  /\ lsMDR0' = 0
  /\ lsMDR1' = Mdr1Byte(m1)
  /\ lsNbytes' = TrackedWidth(m1)
  /\ lsRaised' = FALSE
  /\ lsRet' = <<0, 0>>
  /\ lsChain' = 0
  /\ UNCHANGED <<lsCNTR, lsDTR, pulses, nonLsVars>>

\* write_dtr(value)
LsWriteDtr(value) ==
  LET n == lsNbytes
      v == DtrTruncate(value, n)
  IN
  /\ lsOp' = [LsCall("write_dtr") EXCEPT !.v = value]
  /\ lsPrev' = <<lsMDR1, lsNbytes>>
  /\ lsRet' = <<0, 0>>
  /\ IF ~ToBytesFits(v, n)
     THEN /\ lsRaised' = TRUE
          /\ lsLog' = <<>>
          /\ lsChain' = 0
          /\ UNCHANGED lsDTR
     ELSE /\ lsRaised' = FALSE
          /\ lsLog' = <<Xfer(WR_DTR, ToBytesBig(v, n), <<>>)>>
          /\ lsDTR' = ChipShiftIn(lsDTR, ChipWidth(lsMDR1), ToBytesBig(v, n))
          /\ lsChain' = 1
  /\ UNCHANGED <<lsNbytes, lsMDR0, lsMDR1, lsCNTR, pulses, nonLsVars>>

\* load_cntr_from_dtr(): DTR -> CNTR
LsLoadCntrFromDtr ==
  /\ lsOp' = [LsCall("load_cntr_from_dtr") EXCEPT !.v = IF lsChain = 1 THEN lsOp.v ELSE <<0, 0>>]
  /\ lsPrev' = <<lsMDR1, lsNbytes>>
  /\ lsLog' = <<Xfer(LOAD_CNTR, <<>>, <<>>)>>
  /\ lsCNTR' = lsDTR
  /\ lsRaised' = FALSE
  /\ lsRet' = <<0, 0>>
  /\ lsChain' = IF lsChain = 1 THEN 2 ELSE 0
  /\ UNCHANGED <<lsNbytes, lsMDR0, lsMDR1, lsDTR, pulses, nonLsVars>>

\* latch_cntr_to_otr(): CNTR -> OTR.  No method of the driver reads OTR other
\* than through RD_CNTR, which latches it first, so OTR is not kept.
LsLatchCntrToOtr ==
  /\ lsOp' = LsCall("latch_cntr_to_otr")
  /\ lsPrev' = <<lsMDR1, lsNbytes>>
  /\ lsLog' = <<Xfer(LOAD_OTR, <<>>, <<>>)>>
  /\ lsRaised' = FALSE
  /\ lsRet' = <<0, 0>>
  /\ lsChain' = 0
  /\ UNCHANGED <<lsNbytes, lsMDR0, lsMDR1, lsCNTR, lsDTR, pulses, nonLsVars>>

\* clear_counter() / zero()
LsClearCounter ==
  /\ lsOp' = LsCall("clear_counter")
  /\ lsPrev' = <<lsMDR1, lsNbytes>>
  /\ lsLog' = <<Xfer(CLR_CNTR, <<>>, <<>>)>>
  /\ lsCNTR' = <<0, 0, 0, 0>>
  /\ lsRaised' = FALSE
  /\ lsRet' = <<0, 0>>
  /\ lsChain' = 0
  /\ UNCHANGED <<lsNbytes, lsMDR0, lsMDR1, lsDTR, pulses, nonLsVars>>

\* read_counter(signed=signed)
LsReadCounter(signed) ==
  LET n == lsNbytes
      raw == ChipShiftOut(lsCNTR, ChipWidth(lsMDR1), n)
  IN
  /\ lsOp' = [LsCall("read_counter") EXCEPT
               !.flag = signed,
               !.v = IF lsChain = 2 /\ ~signed THEN lsOp.v ELSE <<0, 0>>]
  /\ lsPrev' = <<lsMDR1, lsNbytes>>
  /\ lsLog' = <<Xfer(RD_CNTR, <<>>, raw)>>
  /\ lsRaised' = FALSE
  /\ lsRet' = CounterValue(raw, n, signed)
  /\ lsChain' = IF lsChain = 2 /\ ~signed THEN 3 ELSE 0
  /\ UNCHANGED <<lsNbytes, lsMDR0, lsMDR1, lsCNTR, lsDTR, pulses, nonLsVars>>

\* A pulse on input A while counting is enabled (MDR1 B2 = 0), B held high.
Pulse ==
  /\ pulses < MaxPulses
  /\ BitAnd(lsMDR1, 4) = 0
  /\ pulses' = pulses + 1
  /\ lsCNTR' = WithLowBytes(lsCNTR, IncBytes(LowBytes(lsCNTR, ChipWidth(lsMDR1))))
  /\ lsChain' = 0
  /\ UNCHANGED <<lsNbytes, lsMDR0, lsMDR1, lsDTR, lsOp, lsPrev, lsLog, lsRaised, lsRet,
                 nonLsVars>>

InitLS7366R ==
  /\ lab = "rc_circuit"
  /\ SerialStart
  /\ AdConstructed
  /\ BiotStart
  /\ FcIdle
  /\ CbIdle
  /\ \E mdr1 \in CtorMdr1Choices : LsConstructed(mdr1)

\* The calls that act on the counter and its data register, at the width the
\* constructor set.
NextLSCounter ==
  \/ \E v \in DtrChoices : LsWriteDtr(v)
  \/ LsLoadCntrFromDtr
  \/ LsLatchCntrToOtr
  \/ LsClearCounter
  \/ \E signed \in BOOLEAN : LsReadCounter(signed)
  \/ Pulse

SpecLSCounter == InitLS7366R /\ [][NextLSCounter]_vars

\* The calls that act on MDR1, and reading the counter at the width they leave.
NextLSMode ==
  \/ \E signed \in BOOLEAN : LsReadCounter(signed)
  \/ Pulse
  \/ \E v \in Mdr1Choices : LsWriteMdr1(v)
  \/ LsReadMdr1
  \/ \E b \in BOOLEAN : LsEnableCounting(b)
  \/ \E k \in NbytesChoices : LsSetCounterBytes(k)
  \/ \E b \in BOOLEAN : LsConfigure(b)

SpecLSMode == InitLS7366R /\ [][NextLSMode]_vars

InitCb ==
  lab = "rc_circuit" /\ SerialStart /\ AdConstructed /\ LsIdle /\ BiotStart /\ FcIdle /\ CbIdle

NextCb ==
  \/ CbRun
  \/ \E gap \in CbGaps : CbWaitFall(gap)
  \/ \E gap \in CbGaps : CbWaitRise(gap)
  \/ CbWrite
  \/ CbPinChange

\* The interpreter keeps running the device's code; nothing makes the signal
\* change.
SpecCb == InitCb /\ [][NextCb]_vars /\ WF_vars(CbDevice)

InitFc == lab = "rc_circuit" /\ SerialStart /\ AdConstructed /\ LsIdle /\ BiotStart /\ FcIdle
    /\ CbIdle

NextFc ==
  \/ \E period \in FcPeriods, phase \in FcPhases : FcTakeT0(period, phase)
  \/ \E d \in FcSpiDelays : FcZero(d)
  \/ \E gap \in FcPollGaps : FcPoll(gap)
  \/ \E d \in FcSpiDelays : FcReadCounter(d)

SpecFc == InitFc /\ [][NextFc]_vars

InitBiot == lab = "rc_circuit" /\ SerialStart /\ AdConstructed /\ LsIdle /\ BiotStart /\ FcIdle
    /\ CbIdle

NextBiot ==
  \/ BsSetThrottle
  \/ BsSampleOk
  \/ BsSampleUncaught
  \/ \E read \in BsCaught, release \in {"ok"} \cup BsDeadOutcomes,
        bus \in BsLiveOutcomes, mag \in BsLiveOutcomes :
       BsSampleReinit(read, release, bus, mag)
  \/ BsEndStep
  \/ BsCleanUp

SpecBiot == InitBiot /\ [][NextBiot]_vars

InitAD9833 == lab = "rc_circuit" /\ SerialStart /\ AdConstructed /\ LsIdle /\ BiotStart /\ FcIdle
    /\ CbIdle

\* The calls that act on the control register.
NextADControl ==
  \/ \E st \in StateChoices : AdReset(st)
  \/ \E reg \in RegChoices : AdSelectFrequencyRegister(reg)
  \/ \E reg \in RegChoices : AdSelectPhaseRegister(reg)
  \/ \E kind \in KindChoices : AdWaveformSet(kind)
  \/ \E dac \in StateChoices, clock \in StateChoices : AdSleep(dac, clock)

SpecADControl == InitAD9833 /\ [][NextADControl]_vars

\* The calls that act on the frequency registers and their cache.
NextADFreq ==
  \/ \E reg \in RegChoices : AdSelectFrequencyRegister(reg)
  \/ \E hz \in FreqChoices, reg \in OptRegChoices : AdSetFrequency(hz, reg)
  \/ \E hz \in FreqChoices : AdFrequencySet(hz)
  \/ AdFrequencyGet

SpecADFreq == InitAD9833 /\ [][NextADFreq]_vars

InitSerial == lab \in Labs /\ SerialStart /\ AdConstructed /\ LsIdle /\ BiotStart /\ FcIdle
    /\ CbIdle

NextSerial ==
  \/ DevReadCommand
  \/ DevSample
  \/ DevStartSend
  \/ DevSendLine
  \/ DevReturn
  \/ \E entry \in Entries : HostPrompt(entry)
  \/ HostSendRun
  \/ HostReadCount
  \/ HostReadFirst
  \/ HostReadSecond
  \/ HostRerun
  \/ StrayWrite

SpecSerial == InitSerial /\ [][NextSerial]_vars

\* The two scripts that ask for the resistor: ohms_law/read_samples.py with its
\* device, and ohms_read.py, which drives the DAC itself.
InitResistor == lab \in Prompting /\ SerialStart /\ AdConstructed /\ LsIdle /\ BiotStart /\ FcIdle
    /\ CbIdle

NextResistor ==
  \/ NextSerial
  \/ HostSweep
  \/ HostSweepSave

SpecResistor == InitResistor /\ [][NextResistor]_vars

(***************************************************************************)
(* Arbitrary-size naturals, for statements whose products exceed the       *)
(* checker's integers: little-endian digits in base 2^15.                  *)
(***************************************************************************)
BigBase == 2 ^ 15

RECURSIVE BigOf(_)
BigOf(n) == IF n = 0 THEN <<>> ELSE <<n % BigBase>> \o BigOf(n \div BigBase)

RECURSIVE BigAddC(_, _, _)
BigAddC(x, y, c) ==
  IF x = <<>> /\ y = <<>> THEN (IF c = 0 THEN <<>> ELSE <<c>>)
  ELSE LET a == IF x = <<>> THEN 0 ELSE Head(x)
           b == IF y = <<>> THEN 0 ELSE Head(y)
           t == a + b + c
       IN <<t % BigBase>> \o BigAddC(IF x = <<>> THEN <<>> ELSE Tail(x),
                                     IF y = <<>> THEN <<>> ELSE Tail(y),
                                     t \div BigBase)

BigAdd(x, y) == BigAddC(x, y, 0)

RECURSIVE BigMulDigit(_, _, _)
BigMulDigit(x, d, c) ==
  IF x = <<>> THEN (IF c = 0 THEN <<>> ELSE <<c>>)
  ELSE LET t == Head(x) * d + c
       IN <<t % BigBase>> \o BigMulDigit(Tail(x), d, t \div BigBase)

RECURSIVE BigMul(_, _)
BigMul(x, y) ==
  IF y = <<>> THEN <<>>
  ELSE BigAdd(BigMulDigit(x, Head(y), 0), <<0>> \o BigMul(x, Tail(y)))

\* x <= y
RECURSIVE BigLeq(_, _)
BigLeq(x, y) ==
  IF x = <<>> /\ y = <<>> THEN TRUE
  ELSE LET a == IF x = <<>> THEN 0 ELSE x[Len(x)]
           b == IF y = <<>> THEN 0 ELSE y[Len(y)]
           n == IF Len(x) > Len(y) THEN Len(x) ELSE Len(y)
           px == x \o [i \in 1..(n - Len(x)) |-> 0]
           py == y \o [i \in 1..(n - Len(y)) |-> 0]
       IN IF px[n] # py[n] THEN px[n] < py[n]
          ELSE BigLeq(SubSeq(px, 1, n - 1), SubSeq(py, 1, n - 1))

(***************************************************************************)
(* Reading the SPI log.                                                    *)
(***************************************************************************)
\* The k-th 16-bit big-endian word of a transaction.
TxWord(tx, k) == tx[2 * k - 1] * 256 + tx[2 * k]
\* Bit b (0 = least significant) of w.
BitOf(w, b) == (w \div (2 ^ b)) % 2
\* A control word with the RESET bit taken out.
SansReset(w) == w - 256 * BitOf(w, 8)

(***************************************************************************)
(* Claims.                                                                 *)
(***************************************************************************)

\* C1 (as stated): when the device is back at "Waiting" after an accepted 'r',
\* what it wrote is one decimal count N followed by exactly N value lines.
C1_ReplyIsCountThenNValues ==
  (dpc = "waiting" /\ reply # <<>>) =>
     /\ IsDecimal(Strip(reply[1]))
     /\ Len(reply) = 1 + ParseInt(Strip(reply[1]))

\* C1 (amended): when the device is back at "Waiting" after an accepted 'r',
\* what it wrote is one decimal count N followed by exactly 2N newline-terminated
\* decimal lines (two arrays of N values each); while it is still sending, it
\* has written no more than that.
C1_ReplyIsCountThenTwoArrays ==
  /\ (dpc = "waiting" /\ reply # <<>>) =>
       /\ \A i \in 1..Len(reply) :
            /\ reply[i][Len(reply[i])] = "\n"
            /\ IsDecimal(SubSeq(reply[i], 1, Len(reply[i]) - 1))
       /\ ParseInt(Strip(reply[1])) = (IF lab = "rc_circuit" THEN 2 * NScale ELSE NScale)
       /\ Len(reply) = 1 + 2 * ParseInt(Strip(reply[1]))
  /\ (dpc = "sending" /\ reply # <<>>) =>
       Len(reply) <= 1 + 2 * ParseInt(Strip(reply[1]))

\* C1 witness: the device has answered a second 'r' in full and waits again.
C1_Witness ==
  /\ dpc = "waiting"
  /\ runs = 2
  /\ hpc = "done"
  /\ Len(reply) = 1 + 2 * NScale
  /\ toHost = <<>>

\* The register a set_frequency / frequency-setter call addresses.
AddressedReg ==
  IF adOp.name = "frequency.setter" \/ adOp.reg = None THEN adFreqSel
  ELSE IF adOp.reg[1] = 0 THEN 0 ELSE 1

FrequencyCallDone ==
  /\ adOp.name \in {"set_frequency", "frequency.setter"}
  /\ ~adRaised

\* C2: a set_frequency that returns has made exactly one SPI transaction of
\* exactly two 16-bit big-endian words; both carry the prefix of the addressed
\* register in D15..D14 (01 for FREQ0, 10 for FREQ1; the selected register when
\* reg is None); the first carries the low 14 bits of the tuning word and the
\* second its high 14 bits.  A call that raises makes no transaction.
C2_OneTransactionLswThenMsw ==
  /\ FrequencyCallDone =>
       /\ Len(adLog) = 1
       /\ Len(adLog[1]) = 4
       /\ \A i \in 1..4 : adLog[1][i] \in 0..255
       /\ TxWord(adLog[1], 1) \div 16384 = (IF AddressedReg = 1 THEN 2 ELSE 1)
       /\ TxWord(adLog[1], 2) \div 16384 = (IF AddressedReg = 1 THEN 2 ELSE 1)
       /\ TxWord(adLog[1], 1) % 16384 = Word28(adOp.hz) % 16384
       /\ TxWord(adLog[1], 2) % 16384 = Word28(adOp.hz) \div 16384
  /\ (adOp.name \in {"set_frequency", "frequency.setter"} /\ adRaised) => adLog = <<>>

\* C2 witness: set_frequency(100000, reg=1) with FREQ0 selected wrote
\* 0xA24E 0x8041 (LSW 8782, MSW 65, prefix 10) in one transaction.
C2_Witness ==
  /\ adOp.name = "set_frequency"
  /\ adOp.hz = 100000
  /\ adOp.reg = Some(1)
  /\ adFreqSel = 0
  /\ adLog = << <<162, 78, 128, 65>> >>

\* C3: after a set_frequency(hz) that returns, the 28-bit word programmed
\* (LSW payload + 2^14 * MSW payload) gives f_out = mclk / 2^28 * word within
\* half a tuning step of hz:  2 * |hz * 2^28 - word * mclk| <= mclk.
C3_TuningWordWithinHalfStep ==
  FrequencyCallDone =>
    LET word == (TxWord(adLog[1], 1) % 16384) + 16384 * (TxWord(adLog[1], 2) % 16384)
        hz29 == BigMul(BigOf(adOp.hz), BigOf(536870912))
        wm2 == BigMul(BigOf(2 * word), BigOf(MCLK))
    IN /\ BigLeq(wm2, BigAdd(hz29, BigOf(MCLK)))
       /\ BigLeq(hz29, BigAdd(wm2, BigOf(MCLK)))

\* C4: every control word written, at construction and by reset, waveform,
\* sleep, select_frequency_register and select_phase_register, has
\* D15..D14 = 00 and B28 (bit 13) = 1.
C4_ControlWordsKeepB28 ==
  \A i \in 1..Len(adLog) :
    /\ Len(adLog[i]) = 2
    /\ BitOf(TxWord(adLog[i], 1), 15) = 0
    /\ BitOf(TxWord(adLog[i], 1), 14) = 0
    /\ BitOf(TxWord(adLog[i], 1), 13) = 1

\* C4 witness: a reset pulse issued while the square wave is selected and
\* FREQ1 / PHASE1 are in use wrote 0x2D68 then 0x2C68.
C4_Witness ==
  /\ adOp.name = "reset"
  /\ adOp.st = None
  /\ adLog = << <<45, 104>>, <<44, 104>> >>

\* The name each input of the model stands for once stripped and lowered;
\* <<>> for the inputs that name no waveform.
C5_ExpectedName(kind) ==
  CASE kind \in {<<"s","i","n","e">>, <<" ","S","i","n","e","\n">>}
         -> <<"s","i","n","e">>
    [] kind \in {<<"T","R","I","A","N","G","L","E">>, <<"t","r","i","a","n","g","l","e">>}
         -> <<"t","r","i","a","n","g","l","e">>
    [] kind \in {<<"S","q","u","a","r","e"," ">>, <<"s","q","u","a","r","e">>}
         -> <<"s","q","u","a","r","e">>
    [] OTHER -> <<>>

\* C5: assigning waveform writes one control word with the bits of the table:
\* sine OPBITEN=0 MODE=0 SLEEP12=0, triangle OPBITEN=0 MODE=1 SLEEP12=0,
\* square OPBITEN=1 DIV2=1 MODE=0 SLEEP12=1; the name is matched after strip
\* and lower (other names raise and write nothing); the getter then returns
\* the name set; OPBITEN and MODE are never both 1.
C5_WaveformBits ==
  /\ adOp.name = "waveform.setter" =>
       LET name == C5_ExpectedName(adOp.kind) IN
       /\ adRaised <=> (name = <<>>)
       /\ adRaised => (adLog = <<>> /\ adControl = adPrev)
       /\ ~adRaised =>
            LET w == TxWord(adLog[1], 1) IN
            /\ Len(adLog) = 1
            /\ Len(adLog[1]) = 2
            /\ w = adControl
            /\ WaveformGet(adControl) = name
            /\ name = <<"s","i","n","e">> =>
                 BitOf(w, 5) = 0 /\ BitOf(w, 1) = 0 /\ BitOf(w, 6) = 0
            /\ name = <<"t","r","i","a","n","g","l","e">> =>
                 BitOf(w, 5) = 0 /\ BitOf(w, 1) = 1 /\ BitOf(w, 6) = 0
            /\ name = <<"s","q","u","a","r","e">> =>
                 BitOf(w, 5) = 1 /\ BitOf(w, 3) = 1 /\ BitOf(w, 1) = 0 /\ BitOf(w, 6) = 1
  /\ ~(BitOf(adControl, 5) = 1 /\ BitOf(adControl, 1) = 1)
  /\ \A i \in 1..Len(adLog) :
       ~(BitOf(TxWord(adLog[i], 1), 5) = 1 /\ BitOf(TxWord(adLog[i], 1), 1) = 1)

\* C5 witness: "Square " assigned while the triangle was selected.
C5_Witness ==
  /\ adOp.name = "waveform.setter"
  /\ adOp.kind = <<"S","q","u","a","r","e"," ">>
  /\ BitOf(adPrev, 1) = 1
  /\ adControl = 8192 + 32 + 8 + 64

\* C6: the frequency getter returns the frequency last written to the
\* currently selected frequency register, 0.0 if none was written.
C6_GetterReturnsLastWritten ==
  adOp.name = "frequency.getter" =>
    adRet = (IF adWritten[adFreqSel] = <<>> THEN 0 ELSE adWritten[adFreqSel][1])

\* C7: reset() writes the control word twice, first with RESET set, then with
\* RESET clear; reset(state=True) / reset(state=False) write it once with
\* RESET set / clear; every other bit is as it was before the call.
C7_ResetPulse ==
  adOp.name = "reset" =>
    /\ \A i \in 1..Len(adLog) :
         /\ Len(adLog[i]) = 2
         /\ SansReset(TxWord(adLog[i], 1)) = SansReset(adPrev)
    /\ adOp.st = None =>
         /\ Len(adLog) = 2
         /\ BitOf(TxWord(adLog[1], 1), 8) = 1
         /\ BitOf(TxWord(adLog[2], 1), 8) = 0
    /\ adOp.st = Some(TRUE) =>
         /\ Len(adLog) = 1
         /\ BitOf(TxWord(adLog[1], 1), 8) = 1
    /\ adOp.st = Some(FALSE) =>
         /\ Len(adLog) = 1
         /\ BitOf(TxWord(adLog[1], 1), 8) = 0
    /\ adControl = TxWord(adLog[Len(adLog)], 1)

\* C7 witness: a pulse issued while the chip was held in reset (RESET already
\* set) with the triangle selected: 0x2102 then 0x2002.
C7_Witness ==
  /\ adOp.name = "reset"
  /\ adOp.st = None
  /\ BitOf(adPrev, 8) = 1
  /\ adLog = << <<33, 2>>, <<32, 2>> >>

(***************************************************************************)
(* Reading ints given as <<high, low 16 bits>>, for the counter claims.    *)
(***************************************************************************)
\* a <= b, a < b
PairLeq(a, b) == a[1] < b[1] \/ (a[1] = b[1] /\ a[2] <= b[2])
PairLess(a, b) == a[1] < b[1] \/ (a[1] = b[1] /\ a[2] < b[2])
\* a - b
PairDiff(a, b) ==
  IF a[2] - b[2] < 0 THEN <<a[1] - b[1] - 1, a[2] - b[2] + 65536>>
  ELSE <<a[1] - b[1], a[2] - b[2]>>
\* 2^(8n), 2^(8n-1) and -2^(8n-1) for n in 1..4
TwoTo8(n) ==
  CASE n = 1 -> <<0, 256>> [] n = 2 -> <<1, 0>> [] n = 3 -> <<256, 0>> [] n = 4 -> <<65536, 0>>
HalfOf8(n) ==
  CASE n = 1 -> <<0, 128>> [] n = 2 -> <<0, 32768>> [] n = 3 -> <<128, 0>>
    [] n = 4 -> <<32768, 0>>
MinusHalfOf8(n) ==
  CASE n = 1 -> <<-1, 65408>> [] n = 2 -> <<-1, 32768>> [] n = 3 -> <<-128, 0>>
    [] n = 4 -> <<-32768, 0>>
\* d is a multiple of 2^(8n)
MultipleOf8(d, n) ==
  CASE n = 1 -> d[2] % 256 = 0
    [] n = 2 -> d[2] = 0
    [] n = 3 -> d[2] = 0 /\ d[1] % 256 = 0
    [] n = 4 -> d[2] = 0 /\ d[1] % 65536 = 0
\* The big-endian unsigned value of up to four bytes.
UnsignedOf(raw) ==
  LET b == [i \in 1..(4 - Len(raw)) |-> 0] \o raw
  IN <<b[1] * 256 + b[2], b[3] * 256 + b[4]>>
\* The counter width MDR1 configures.
ConfiguredWidth == 4 - (lsMDR1 % 4)

\* C8: read_counter makes one transfer, opcode RD_CNTR (0x60), and reads
\* exactly n bytes, n the configured width (1..4);
\* signed=False returns their big-endian unsigned value, in [0, 2^(8n) - 1];
\* signed=True returns the value in [-2^(8n-1), 2^(8n-1) - 1] congruent to it
\* modulo 2^(8n).
C8_ReadCounter ==
  lsOp.name = "read_counter" =>
    LET n == ConfiguredWidth
        raw == lsLog[1].inp
        u == UnsignedOf(raw)
    IN /\ ~lsRaised
       /\ Len(lsLog) = 1
       /\ lsLog[1].opcode = 96
       /\ lsLog[1].out = <<>>
       /\ n \in 1..4
       /\ lsNbytes = n
       /\ Len(raw) = n
       /\ ~lsOp.flag =>
            /\ lsRet = u
            /\ PairLeq(<<0, 0>>, lsRet)
            /\ PairLess(lsRet, TwoTo8(n))
       /\ lsOp.flag =>
            /\ PairLeq(MinusHalfOf8(n), lsRet)
            /\ PairLess(lsRet, HalfOf8(n))
            /\ MultipleOf8(PairDiff(u, lsRet), n)

\* C8 witness: width set to 3 bytes, CNTR = 0x7F807FFF: read_counter() read
\* 80 7F FF and returned -8355841 = -128 * 65536 + 32767.
C8_Witness ==
  /\ lsOp.name = "read_counter"
  /\ lsOp.flag
  /\ lsNbytes = 3
  /\ lsLog[1].inp = <<128, 127, 255>>
  /\ lsRet = <<-128, 32767>>

\* C9: write_dtr(value) never raises and makes one transfer: opcode WR_DTR
\* (0x98) followed by exactly n data bytes, the big-endian encoding of
\* value mod 2^(8n); and write_dtr(v), load_cntr_from_dtr(),
\* read_counter(signed=False) with no pulse in between returns v mod 2^(8n).
C9_WriteDtrTruncates ==
  /\ lsOp.name = "write_dtr" =>
       /\ ~lsRaised
       /\ Len(lsLog) = 1
       /\ lsLog[1].opcode = 152
       /\ lsLog[1].inp = <<>>
       /\ Len(lsLog[1].out) = ConfiguredWidth
       /\ \A i \in 1..Len(lsLog[1].out) : lsLog[1].out[i] \in 0..255
       /\ MultipleOf8(PairDiff(lsOp.v, UnsignedOf(lsLog[1].out)), ConfiguredWidth)
  /\ lsChain = 3 =>
       /\ lsOp.name = "read_counter"
       /\ PairLeq(<<0, 0>>, lsRet)
       /\ PairLess(lsRet, TwoTo8(ConfiguredWidth))
       /\ MultipleOf8(PairDiff(lsOp.v, lsRet), ConfiguredWidth)

\* C9 witness: at width 3, write_dtr(-1), load_cntr_from_dtr(),
\* read_counter(signed=False) returned 0xFFFFFF.
C9_Witness ==
  /\ lsChain = 3
  /\ lsOp.v = <<-1, 65535>>
  /\ lsNbytes = 3
  /\ lsRet = <<255, 65535>>

\* C10: set_counter_bytes(nbytes) with nbytes outside 1..4 raises before any
\* SPI transfer and leaves MDR1 and the tracked width as they were; otherwise
\* it reads MDR1 and writes it back with B1..B0 = 00, 01, 10, 11 for 4, 3, 2, 1
\* and every other bit as read, and tracks the width nbytes.
C10_SetCounterBytes ==
  lsOp.name = "set_counter_bytes" =>
    IF lsOp.k \notin {1, 2, 3, 4}
    THEN /\ lsRaised
         /\ lsLog = <<>>
         /\ lsMDR1 = lsPrev[1]
         /\ lsNbytes = lsPrev[2]
    ELSE /\ ~lsRaised
         /\ Len(lsLog) = 2
         /\ lsLog[1].opcode = 80
         /\ lsLog[1].inp = <<lsPrev[1]>>
         /\ lsLog[2].opcode = 144
         /\ lsLog[2].out = <<lsMDR1>>
         /\ lsMDR1 % 4 = (CASE lsOp.k = 4 -> 0 [] lsOp.k = 3 -> 1
                            [] lsOp.k = 2 -> 2 [] lsOp.k = 1 -> 3)
         /\ lsMDR1 \div 4 = lsLog[1].inp[1] \div 4
         /\ lsNbytes = lsOp.k

\* C10 witness: MDR1 = 0xAD (flags, counting disabled, 3 bytes), then
\* set_counter_bytes(2) left MDR1 = 0xAE.
C10_Witness ==
  /\ lsOp.name = "set_counter_bytes"
  /\ lsOp.k = 2
  /\ lsPrev = <<173, 3>>
  /\ lsMDR1 = 174
  /\ lsNbytes = 2

\* C11: the CSV file a host read_samples.py saves has exactly N rows, N the
\* count the device sent, and row i holds the stimulus and the response the
\* device recorded in its i-th loop iteration: the device writes its two
\* arrays in the order the host reads them.
C11_RowsPairSameIteration ==
  csv # <<>> =>
    LET rows == csv[1].rows
        n == ParseInt(Strip(reply[1]))
    IN /\ Len(rows) = n
       /\ Len(dPairs) = n
       /\ Len(reply) = 1 + 2 * n
       /\ \A i \in 1..n :
            /\ reply[1 + i] = Append(DecStr(dPairs[i][1]), "\n")
            /\ reply[1 + n + i] = Append(DecStr(dPairs[i][2]), "\n")
            /\ hFirst[i] = dPairs[i][1]
            /\ hSecond[i] = dPairs[i][2]
            /\ rows[i] = DecStr(dPairs[i][1]) \o <<".", "0", "0", "0", "0", "0", "0", ",">>
                           \o DecStr(dPairs[i][2]) \o <<".", "0", "0", "0", "0", "0", "0">>

\* C11 witness: bjt_amplification saved rows whose responses differ between
\* the first two iterations: 572 with 512, 573 with 0.
C11_Witness ==
  /\ lab = "bjt_amplification"
  /\ csv # <<>>
  /\ Len(csv[1].rows) >= 2
  /\ csv[1].rows[1] = <<"5", "7", "2", ".", "0", "0", "0", "0", "0", "0", ",",
                        "5", "1", "2", ".", "0", "0", "0", "0", "0", "0">>
  /\ csv[1].rows[2] = <<"5", "7", "3", ".", "0", "0", "0", "0", "0", "0", ",",
                        "0", ".", "0", "0", "0", "0", "0", "0">>

\* The data port holds a run command the device has yet to read.
RunPending == \E i \in 1..Len(toDevice) : Strip(toDevice[i]) = <<"r">>

\* C13: the resistor prompt is left only with resistor_num in {1, 2, 3}; a
\* rejected entry prints a message and leaves the script at the prompt; while
\* the script is at the prompt no 'r' command is on its way, no DAC sweep runs
\* and no CSV file is written; the file written afterwards is named
\* resistor<k>.csv for the k entered.
C13_PromptLeftWithValidResistor ==
  /\ [](hpc # "prompt" => resistor \in {1, 2, 3})
  /\ [](hpc = "prompt" =>
          /\ ~RunPending
          /\ dpc # "sampling"
          /\ dacRaw = 0
          /\ csv = <<>>)
  /\ [](csv # <<>> => csv[1].name = <<"resistor", DigitChars[resistor + 1], ".csv">>)
  /\ [][hpc = "prompt" =>
          /\ csv' = csv
          /\ dacRaw' = dacRaw
          /\ ~RunPending'
          /\ hpc' \in {"prompt", "start", "sweep"}
          /\ hpc' # "prompt" => resistor' \in {1, 2, 3}
          /\ tries' # tries =>
               /\ hpc' = "prompt"
               /\ said' \in {OutOfRangeMsg, NotIntMsg}
               /\ said' = OutOfRangeMsg => resistor' \notin {1, 2, 3}]_vars

\* C13 witness: ohms_law/read_samples.py saved resistor3.csv after two
\* rejected entries.
C13_Witness ==
  /\ lab = "ohms_law"
  /\ tries = 2
  /\ resistor = 3
  /\ csv # <<>>
  /\ csv[1].name = <<"resistor", "3", ".csv">>
  /\ Len(csv[1].rows) > 0

\* The device has something left to write, or will have once its main loop
\* reads a pending run command.
DeviceWillWrite ==
  \/ dpc = "sampling"
  \/ dpc = "sending" /\ dI < 1 + Len(dFirst) + Len(dSecond)
  \/ RunPending

\* C14: the host reads after the count line as many lines as the device
\* writes after it: when the host closes the port every line the device
\* wrote has been read and the device has none left to write, and the host
\* never waits for a line while the device has none to send.
C14_LineCountsAgree ==
  /\ hpc # "failed"
  /\ hpc = "done" /\ lab \in Labs =>
       /\ toHost = <<>>
       /\ ~DeviceWillWrite
       /\ Len(reply) - 1 = 2 * hN
  /\ hpc \in {"readN", "readFirst", "readSecond"} /\ toHost = <<>> => DeviceWillWrite

\* C14 witness: the ohms_law host has closed the port after the count and
\* both arrays.
C14_Witness ==
  /\ lab = "ohms_law"
  /\ hpc = "done"
  /\ hN = SampleCount(lab)
  /\ Len(reply) = 1 + 2 * SampleCount(lab)
  /\ toHost = <<>>

\* C12: in biot_savart.py a RuntimeError or OSError raised by a magnetometer
\* read never ends the script: the bus and the magnetometer are made anew, an
\* error raised while doing so is swallowed too, and the loop still completes
\* all 15 x 50 iterations and then switches the electromagnet off (PWM duty
\* 0, sleep pin low).
C12_ReadErrorsNeverEndTheScript ==
  /\ bsPc # "crashed"
  /\ bsPc = "done" =>
       /\ bsIters = 15 * 50
       /\ bsDuty = 0
       /\ bsSleepPin = FALSE

\* C15: each measurement of frequency_counter.py and geiger_counter.py counts
\* pulses over exactly 1 second: from the moment the counter clear takes
\* effect to the moment read_counter latches the count 1,000,000,000 ns pass,
\* so the count read is the input frequency in Hz.
C15_CountsOverOneSecond ==
  fcLatchAt # -1 =>
    /\ fcLatchAt - fcClearAt = 1000000000
    /\ fcRet * fcPeriod = 1000000000

\* C16: once count_by_looping's device has received 'r', read_samples counts
\* for 10 seconds and then writes exactly one count line, whatever the input
\* pin does, a pin that stays high or stays low included.
C16_AlwaysWritesOneLine ==
  (cbPc = "fall") ~> (cbPc = "waiting" /\ Len(cbLines) = 1)

====
